---- MODULE Spec2Model ----
(***************************************************************************)
(* A model of ffVtax: the k-mer indexing engine (BloomFilterHandler, built *)
(* by build_bf) and the matching engine (SequenceMatcher, run by           *)
(* run_ffVtax).                                                            *)
(*                                                                         *)
(* A character is a one-character string and a Python str is a sequence    *)
(* of characters, so a k-mer, a reference id, a line of a file and a path  *)
(* are all sequences of characters.  A dict is a function whose DOMAIN is  *)
(* its key set; None is the empty sequence where an object is optional.    *)
(***************************************************************************)
EXTENDS Integers, Sequences, FiniteSets, TLC

\* ------------------------------------------------------------------------
\* Bounds of the model
\* ------------------------------------------------------------------------
\* A record body is at most MaxExtra characters longer than the k-mer length.
MaxExtra == 1
\* A reference directory holds at most MaxFiles files.
MaxFiles == 2
\* build_bf is given --threads from 1 to MaxThreads.
MaxThreads == 2
\* A file of the estimation scan on its own holds at most MaxRecords records.
MaxRecords == 2
\* Longest sequence and largest k given to the extractors on their own.
MaxLen == 4
MaxK == 3

\* ------------------------------------------------------------------------
\* Program constants
\* ------------------------------------------------------------------------
\* BloomFilterHandler.__init__: kmer_size=21, factor=4
DefaultKmerSize == 21
DefaultFactor == 4
\* the k-mer length a build is given with --kmer_size other than the default
SmallKmerSize == 3

\* ------------------------------------------------------------------------
\* Python str and list operations
\* ------------------------------------------------------------------------
Whitespace == {" ", "\n"}
Digits == {"0", "1", "2", "3", "4", "5", "6", "7", "8", "9"}

Min(a, b) == IF a <= b THEN a ELSE b
Max(a, b) == IF a >= b THEN a ELSE b

\* s[a:b] for 0 <= a and 0 <= b: the slice is clipped to the end of s
Slice(s, a, b) == SubSeq(s, a + 1, Min(b, Len(s)))

RECURSIVE LStrip(_)
LStrip(s) == IF s # <<>> /\ Head(s) \in Whitespace THEN LStrip(Tail(s)) ELSE s

RECURSIVE RStrip(_)
RStrip(s) ==
    IF s # <<>> /\ s[Len(s)] \in Whitespace
    THEN RStrip(SubSeq(s, 1, Len(s) - 1))
    ELSE s

\* str.strip()
Strip(s) == RStrip(LStrip(s))

\* str.startswith / str.endswith
StartsWith(s, p) == Len(s) >= Len(p) /\ SubSeq(s, 1, Len(p)) = p
EndsWith(s, p) == Len(s) >= Len(p) /\ SubSeq(s, Len(s) - Len(p) + 1, Len(s)) = p

RECURSIVE TakeToken(_)
TakeToken(s) ==
    IF s = <<>> \/ Head(s) \in Whitespace
    THEN <<>>
    ELSE <<Head(s)>> \o TakeToken(Tail(s))

\* s.split()[0] for a string that holds a token
FirstToken(s) == TakeToken(LStrip(s))

\* ''.join(parts)
RECURSIVE Join(_)
Join(parts) == IF parts = <<>> THEN <<>> ELSE Head(parts) \o Join(Tail(parts))

\* F(v) with v evaluated once, before F is applied
Bind(v, F(_)) == CHOOSE r \in {F(x) : x \in {v}} : TRUE

\* d[key] of a defaultdict: a missing key is inserted with the default
Touch(d, key, dflt) == IF key \in DOMAIN d THEN d ELSE d @@ (key :> dflt)

\* d[key] = val
Store(d, key, val) == IF key \in DOMAIN d THEN [d EXCEPT ![key] = val] ELSE d @@ (key :> val)

\* d.get(key, dflt)
Get(d, key, dflt) == IF key \in DOMAIN d THEN d[key] ELSE dflt

\* ------------------------------------------------------------------------
\* KmerExtractor
\* ------------------------------------------------------------------------
\* the windows of the list comprehension, with an off-by-one range
WindowsShort(sequence, k) ==
    [i \in 1..Max(0, Len(sequence) - k) |-> Slice(sequence, i - 1, i - 1 + k)]

\* [sequence[i:i + k] for i in range(len(sequence) - k + 1)]
Windows(sequence, k) ==
    [i \in 1..Max(0, Len(sequence) - k + 1) |-> Slice(sequence, i - 1, i - 1 + k)]

\* BloomFilterHandler.extract_kmers
extract_kmers(self, sequence) == Windows(sequence, self.kmer_size)

\* SequenceMatcher._extract_kmers: the matcher reads the k of its handler
_extract_kmers(bloom_filter_handler, sequence) ==
    [i \in 1..Max(0, Len(sequence) - bloom_filter_handler.kmer_size + 1) |->
        Slice(sequence, i - 1, i - 1 + bloom_filter_handler.kmer_size)]

\* ------------------------------------------------------------------------
\* CapacityEstimator.  A file is [path, readable, lines]; opening a file
\* that is not readable raises.  A directory (db_path) is the sequence of
\* its files in the order os.walk lists them.
\* ------------------------------------------------------------------------
\* the count of one record body, with the operands of the difference swapped
CountKmersSwapped(self, sequence) ==
    IF Len(sequence) >= self.kmer_size
    THEN self.kmer_size - Len(sequence) + 1
    ELSE 0

\* BloomFilterHandler._count_kmers_in_sequence
_count_kmers_in_sequence(self, sequence) ==
    IF Len(sequence) >= self.kmer_size
    THEN Len(sequence) - self.kmer_size + 1
    ELSE 0

\* the line loop of estimate_kmers and the count of the last body after it
RECURSIVE EstimateLines(_, _, _, _)
EstimateLines(self, lines, kmer_count, sequence) ==
    IF lines = <<>>
    THEN kmer_count + _count_kmers_in_sequence(self, sequence)
    ELSE LET line == Strip(Head(lines)) IN
         IF line = <<>>
         THEN EstimateLines(self, Tail(lines), kmer_count, sequence)
         ELSE IF StartsWith(line, <<">">>)
         THEN EstimateLines(self, Tail(lines),
                            kmer_count + _count_kmers_in_sequence(self, sequence), <<>>)
         ELSE EstimateLines(self, Tail(lines), kmer_count, sequence \o line)

\* BloomFilterHandler.estimate_kmers: an error of the read is caught
estimate_kmers(self, file) ==
    IF file.readable THEN EstimateLines(self, file.lines, 0, <<>>) ELSE 0

FnaSuffix == <<".", "f", "n", "a">>
FastaSuffix == <<".", "f", "a", "s", "t", "a">>
GzSuffix == <<".", "g", "z">>

\* the files the estimation scan reads
EstimateIncludes(path) == EndsWith(path, FnaSuffix) \/ EndsWith(path, FnaSuffix \o GzSuffix)

\* the files the build reads
BuildIncludes(path) ==
    \/ EndsWith(path, FnaSuffix)
    \/ EndsWith(path, FnaSuffix \o GzSuffix)
    \/ EndsWith(path, FastaSuffix)
    \/ EndsWith(path, FastaSuffix \o GzSuffix)

\* BloomFilterHandler._estimate_total_kmers_in_db
RECURSIVE _estimate_total_kmers_in_db(_, _)
_estimate_total_kmers_in_db(self, db_path) ==
    IF db_path = <<>>
    THEN 0
    ELSE (IF EstimateIncludes(Head(db_path).path)
          THEN estimate_kmers(self, Head(db_path))
          ELSE 0)
         + _estimate_total_kmers_in_db(self, Tail(db_path))

\* ------------------------------------------------------------------------
\* Reading a reference file
\* ------------------------------------------------------------------------
Unknown == <<"U", "n", "k", "n", "o", "w", "n">>
GcaPrefix == <<"G", "C", "A", "_">>

\* the longest run of digits of s from position i on (\d+ is greedy)
DigitRun(s, i) ==
    LET stop == CHOOSE n \in i..(Len(s) + 1) :
                    /\ n = Len(s) + 1 \/ s[n] \notin Digits
                    /\ \A m \in i..(n - 1) : s[m] \in Digits
    IN  SubSeq(s, i, stop - 1)

\* the text GCA_\d+\.\d+ matches at position i of s, <<>> when it does not
GcaMatchAt(s, i) ==
    IF Slice(s, i - 1, i - 1 + Len(GcaPrefix)) # GcaPrefix
    THEN <<>>
    ELSE LET d1 == DigitRun(s, i + Len(GcaPrefix))
             dot == i + Len(GcaPrefix) + Len(d1)
             d2 == IF dot <= Len(s) /\ s[dot] = "." THEN DigitRun(s, dot + 1) ELSE <<>>
         IN  IF d1 # <<>> /\ d2 # <<>>
             THEN GcaPrefix \o d1 \o <<".">> \o d2
             ELSE <<>>

\* re.search: the leftmost match
LeftmostMatch(s, starts) ==
    IF starts = {}
    THEN <<>>
    ELSE GcaMatchAt(s, CHOOSE i \in starts : \A j \in starts : i <= j)

GcaSearch(s) ==
    Bind({i \in 1..Len(s) : GcaMatchAt(s, i) # <<>>}, LAMBDA starts : LeftmostMatch(s, starts))

\* BloomFilterHandler._extract_gca_from_filename
_extract_gca_from_filename(file_path) ==
    Bind(GcaSearch(file_path),
         LAMBDA gca_match : IF gca_match # <<>> THEN gca_match ELSE Unknown)

\* BloomFilterHandler._extract_reference_name
_extract_reference_name(header_line) ==
    IF StartsWith(header_line, <<">">>)
    THEN Tail(FirstToken(header_line))
    ELSE Unknown

\* What _process_file_kmers does to the handler, in order: "gca" is the
\* assignment reference_gca_map[ref] = gca_name at a header, "add" is a call
\* _add_kmers_to_bloom(sequence, ref).  current_reference is <<>> for None
\* and <<name>> for a name.
GcaEvent(ref) == [op |-> "gca", ref |-> ref, sequence |-> <<>>]
AddEvent(ref, sequence) == [op |-> "add", ref |-> ref, sequence |-> sequence]

\* `if current_reference and sequence_data`
HasRecord(current_reference, sequence_data) ==
    /\ current_reference # <<>>
    /\ current_reference[1] # <<>>
    /\ sequence_data # <<>>

RECURSIVE ProcessLines(_, _, _)

\* one turn of the loop `for line in db_file`, or the code after the loop
ProcessLine(lines, current_reference, sequence_data) ==
    IF lines = <<>>
    THEN IF HasRecord(current_reference, sequence_data)
         THEN <<AddEvent(current_reference[1], Join(sequence_data))>>
         ELSE <<>>
    ELSE LET line == Strip(Head(lines)) IN
         IF StartsWith(line, <<">">>)
         THEN LET flush == HasRecord(current_reference, sequence_data)
                  name == _extract_reference_name(line)
              IN  (IF flush
                   THEN <<AddEvent(current_reference[1], Join(sequence_data))>>
                   ELSE <<>>)
                  \o <<GcaEvent(name)>>
                  \o ProcessLines(Tail(lines), <<name>>,
                                  IF flush THEN <<>> ELSE sequence_data)
         ELSE ProcessLines(Tail(lines), current_reference, Append(sequence_data, line))

\* the loop from the locals it has reached
ProcessLines(lines, current_reference, sequence_data) ==
    Bind(<<lines, current_reference, sequence_data>>,
         LAMBDA locals : ProcessLine(locals[1], locals[2], locals[3]))

\* the calls of one _process_file_kmers(file_path) on an open file
FileEvents(file) == ProcessLines(file.lines, <<>>, <<>>)

\* ------------------------------------------------------------------------
\* ProbabilisticMembershipSet (pybloom_live.BloomFilter).  added is the set
\* of keys given to add; count and capacity are the filter's own.  A probe
\* of a key never added answers true when the key's bits are all set by
\* other keys: fp is the set of such keys at the time of the probe.
\* ------------------------------------------------------------------------
BloomFilter(capacity) == [capacity |-> capacity, count |-> 0, added |-> {}]

\* add raises IndexError("BloomFilter is at capacity")
BloomAtCapacity(bloom) == bloom.count > bloom.capacity

BloomAdd(bloom, kmer) ==
    [bloom EXCEPT !.added = @ \cup {kmer},
                  !.count = IF kmer \in bloom.added THEN @ ELSE @ + 1]

\* kmer in bloom
BloomContains(bloom, fp, kmer) == kmer \in bloom.added \/ kmer \in fp

\* ------------------------------------------------------------------------
\* BloomFilterHandler
\* ------------------------------------------------------------------------
\* BloomFilterHandler.__init__
NewHandler(kmer_size, factor) ==
    [kmer_size |-> kmer_size,
     factor |-> factor,
     bloom |-> <<>>,
     kmer_to_reference |-> <<>>,
     reference_kmer_count |-> <<>>,
     reference_gca_map |-> <<>>,
     reference_sequences |-> <<>>]

\* BloomFilterHandler.get_reference_kmers
get_reference_kmers(self, reference_name) ==
    {kmer \in DOMAIN self.kmer_to_reference :
        reference_name \in self.kmer_to_reference[kmer]}

\* data_to_save of save_bloom_filter
PickleOf(self) ==
    [bloom |-> self.bloom,
     kmer_to_reference |-> self.kmer_to_reference,
     reference_kmer_count |-> self.reference_kmer_count,
     reference_gca_map |-> self.reference_gca_map,
     reference_sequences |-> self.reference_sequences]

\* the assignments of load_bloom_filter
Restore(self, data_loaded) ==
    [self EXCEPT !.bloom = data_loaded.bloom,
                 !.kmer_to_reference = data_loaded.kmer_to_reference,
                 !.reference_kmer_count = data_loaded.reference_kmer_count,
                 !.reference_gca_map = data_loaded.reference_gca_map,
                 !.reference_sequences = data_loaded.reference_sequences]

\* ------------------------------------------------------------------------
\* SequenceMatcher
\* ------------------------------------------------------------------------
\* SequenceMatcher._read_fasta_file: the (name, data) pairs it yields;
\* sequence_name is <<>> for None and <<name>> for a name
RECURSIVE ReadFasta(_, _, _)
ReadFasta(lines, sequence_name, sequence_data) ==
    IF lines = <<>>
    THEN IF sequence_name # <<>>
         THEN <<[name |-> sequence_name[1], data |-> Join(sequence_data)]>>
         ELSE <<>>
    ELSE LET line == Strip(Head(lines)) IN
         IF StartsWith(line, <<">">>)
         THEN (IF sequence_name # <<>>
               THEN <<[name |-> sequence_name[1], data |-> Join(sequence_data)]>>
               ELSE <<>>)
              \o ReadFasta(Tail(lines), <<Tail(line)>>, <<>>)
         ELSE ReadFasta(Tail(lines), sequence_name, Append(sequence_data, line))

_read_fasta_file(file) == ReadFasta(file, <<>>, <<>>)

\* the elements of a list
Elems(list) == {list[i] : i \in DOMAIN list}

\* the k-mers of input_kmers for which `kmer in bloom` is true
ProbeHits(self, input_kmers, fp) ==
    {kmer \in input_kmers : BloomContains(self.bloom[1], fp, kmer)}

\* kmer_to_reference[kmer] as the loop reads it: set() for a missing key
Lookup(self, kmer) == Get(self.kmer_to_reference, kmer, {})

\* every probe hit attributed to every reference of the catalog
MatchesByProbeOnly(self, hits) ==
    [ref \in DOMAIN self.reference_kmer_count |-> hits]

\* reference_kmer_matches after the loop over input_kmers
ReferenceKmerMatches(self, hits) ==
    [ref \in UNION {Lookup(self, kmer) : kmer \in hits} |->
        {kmer \in hits : ref \in Lookup(self, kmer)}]

\* kmer_to_reference after the loop: the defaultdict has inserted every
\* key it was read with
AfterLookups(kmer_to_reference, hits) ==
    [kmer \in DOMAIN kmer_to_reference \cup hits |->
        IF kmer \in DOMAIN kmer_to_reference THEN kmer_to_reference[kmer] ELSE {}]

\* f"{n / d:.4f}" as a number of ten-thousandths (no quotient of the model
\* falls on a half)
Format4(n, d) == (20000 * n + d) \div (2 * d)

\* the row written for one matched reference
Row(self, sequence_name, input_kmers, ref, matched_kmers) ==
    LET reference_kmers_set == get_reference_kmers(self, ref)
        both == Cardinality(input_kmers \cap reference_kmers_set)
        scored == Cardinality(input_kmers) > 0 /\ Cardinality(reference_kmers_set) > 0
    IN  [sequence_name |-> sequence_name,
         total_input_kmers |-> Cardinality(input_kmers),
         ref |-> ref,
         matched |-> Cardinality(matched_kmers),
         reference_total_kmers |-> Get(self.reference_kmer_count, ref, 0),
         gca_name |-> Get(self.reference_gca_map, ref, Unknown),
         jacc |-> IF scored
                  THEN Format4(both, Cardinality(input_kmers \cup reference_kmers_set))
                  ELSE 0,
         qcov |-> IF scored
                  THEN Format4(both, Cardinality(reference_kmers_set))
                  ELSE 0]

\* the rows _match_sequence writes for one query; their order is the
\* iteration order of a set of str and is left open
MatchRows(self, record, fp) ==
    LET input_kmers == Elems(_extract_kmers(self, record.data))
        matches == ReferenceKmerMatches(self, ProbeHits(self, input_kmers, fp))
    IN  {Row(self, record.name, input_kmers, ref, matches[ref]) : ref \in DOMAIN matches}

\* ------------------------------------------------------------------------
\* Inputs
\* ------------------------------------------------------------------------
Alphabet == <<"A", "C", "G", "T">>

\* the first n letters of ACGTACGT... read from offset off
Cyc(off, n) == [i \in 1..n |-> Alphabet[((i - 1 + off) % 4) + 1]]

\* n letters in four runs, AA..CC..GG..TT: no two windows of it are equal
Ramp(n) == [i \in 1..n |-> Alphabet[(((i - 1) \div ((n + 3) \div 4)) % 4) + 1]]

\* The reference files a directory is drawn from, for a build with k-mer
\* length k: two files with a record of the same reference id and a shared
\* k-mer, a file the estimation scan leaves out, a file that cannot be read,
\* a file whose only body is shorter than k, a file the build ignores, a
\* file the estimation scan leaves out with more k-mers than factor, and a
\* file with a body before its first header, a header without an id and a
\* record without a body.
RefFiles(k) ==
    << [path |-> <<"G", "C", "A", "_", "0", "0", "0", "1", "2", "3", ".", "1", "_", "v", "i", "r", "a", "l", ".", "f", "n", "a">>, readable |-> TRUE,
        lines |-> << <<">", "r", " ", "v", "i", "r", "a", "l">> \o <<"\n">>, SubSeq(Cyc(0, k + MaxExtra), 1, 2) \o <<"\n">>,
                     SubSeq(Cyc(0, k + MaxExtra), 3, k + MaxExtra) \o <<"\n">> >>],
       [path |-> <<"b", ".", "f", "n", "a", ".", "g", "z">>, readable |-> TRUE,
        lines |-> << <<">", "r">>, Cyc(1, k) >>],
       [path |-> <<"G", "C", "A", "_", "7", ".", "2", ".", "f", "a", "s", "t", "a">>, readable |-> TRUE,
        lines |-> << <<">", "s">>, Cyc(1, k + MaxExtra), <<"\n">> >>],
       [path |-> <<"d", ".", "f", "n", "a">>, readable |-> FALSE,
        lines |-> << <<">", "s">>, Cyc(0, k) >>],
       [path |-> <<"e", ".", "f", "n", "a">>, readable |-> TRUE,
        lines |-> << <<">", "s">>, Cyc(0, k - 1) >>],
       [path |-> <<"n", "o", "t", "e", "s", ".", "t", "x", "t">>, readable |-> TRUE,
        lines |-> << Cyc(0, k) >>],
       [path |-> <<"b", "i", "g", ".", "f", "a", "s", "t", "a">>, readable |-> TRUE,
        lines |-> << <<">", "t">>, Ramp(k + DefaultFactor) >>],
       [path |-> <<"G", "C", "A", "_", "9", ".", "9", "_", "o", "d", "d", ".", "f", "n", "a">>, readable |-> TRUE,
        lines |-> << Cyc(0, 2), <<">">>, Cyc(2, k - 1), <<"\n">>, <<">", "u">>,
                     <<">", "v", " ", "x">>, Cyc(3, k) >>] >>

RECURSIVE Pick(_, _, _)
Pick(files, chosen, i) ==
    IF i > Len(files)
    THEN <<>>
    ELSE (IF i \in chosen THEN <<files[i]>> ELSE <<>>) \o Pick(files, chosen, i + 1)

\* the directories of at most MaxFiles files
Directories(k) ==
    {Pick(RefFiles(k), chosen, 1) :
        chosen \in {c \in SUBSET (1..Len(RefFiles(k))) : Cardinality(c) <= MaxFiles}}

KmerSizes == {SmallKmerSize, DefaultKmerSize}

\* the query files of a matching session
QueryFiles ==
    { << <<">", "q", "1">>, Cyc(0, DefaultKmerSize + MaxExtra) >>,
      << <<">", "q", "2", " ", "x">>, Cyc(0, SmallKmerSize + MaxExtra) >>,
      << <<">", "q", "3">>, Cyc(2, DefaultKmerSize), <<">", "q", "4">>, Cyc(1, DefaultKmerSize) \o <<"\n">> >> }

\* ------------------------------------------------------------------------
\* State
\* ------------------------------------------------------------------------
VARIABLES
    db,       \* the reference directory given to build_bf
    num_threads, \* the --threads given to build_bf
    bh,       \* the BloomFilterHandler of build_bf
    pcBuild,  \* where build_bf is
    walk,     \* the next file of os.walk in load_database_multithreaded
    futures,  \* the tasks submitted to the executor, in submit order
    pkl,      \* bloom_filter.pkl: <<>> while it does not exist
    mh,       \* the BloomFilterHandler of run_ffVtax
    pcRun,    \* where run_ffVtax is
    queries,  \* the records of the query file still to be matched
    out,      \* the rows written, one set per matched query
    last,     \* the locals of the last _match_sequence
    call,     \* the arguments of a function applied on its own
    ret       \* and its results

vars == <<db, num_threads, bh, pcBuild, walk, futures, pkl, mh, pcRun, queries, out, last, call, ret>>

buildVars == <<db, num_threads, bh, pcBuild, walk, futures>>
runVars == <<mh, pcRun, queries, out, last>>

NoMatch == [input_kmers |-> {}, fp |-> {}, reference_kmer_matches |-> <<>>, matched |-> FALSE]

Idle ==
    /\ db = <<>>
    /\ num_threads = 1
    /\ bh = NewHandler(DefaultKmerSize, DefaultFactor)
    /\ pcBuild = "start"
    /\ walk = 1
    /\ futures = <<>>
    /\ pkl = <<>>
    /\ mh = NewHandler(DefaultKmerSize, DefaultFactor)
    /\ pcRun = "start"
    /\ queries = <<>>
    /\ out = <<>>
    /\ last = NoMatch

\* build_bf is started on a directory with --kmer_size k; run_ffVtax has
\* constructed BloomFilterHandler()
Init ==
    /\ \E k \in KmerSizes :
        /\ db \in Directories(k)
        /\ bh = NewHandler(k, DefaultFactor)
    /\ num_threads \in 1..MaxThreads
    /\ pcBuild = "start"
    /\ walk = 1
    /\ futures = <<>>
    /\ pkl = <<>>
    /\ mh = NewHandler(DefaultKmerSize, DefaultFactor)
    /\ pcRun = "start"
    /\ queries = <<>>
    /\ out = <<>>
    /\ last = NoMatch
    /\ call = <<>>
    /\ ret = <<>>

\* ------------------------------------------------------------------------
\* build_bf: load_database_multithreaded, then save_bloom_filter
\* ------------------------------------------------------------------------
\* `if estimated_kmers >= 0`
EstimateAcceptedOrZero(estimated_kmers) == estimated_kmers >= 0

\* `if estimated_kmers > 0`
EstimateAccepted(estimated_kmers) == estimated_kmers > 0

\* lines 71-77: the estimate, then the filter or ValueError
BuildEstimate ==
    /\ pcBuild = "start"
    /\ LET estimated_kmers == _estimate_total_kmers_in_db(bh, db) IN
        IF EstimateAccepted(estimated_kmers)
        THEN /\ bh' = [bh EXCEPT !.bloom = <<BloomFilter(estimated_kmers * bh.factor)>>]
             /\ pcBuild' = "walk"
        ELSE /\ bh' = bh
             /\ pcBuild' = "config_error"
    /\ UNCHANGED <<db, num_threads, walk, futures, pkl, call, ret>>
    /\ UNCHANGED runVars

NewFuture(file) ==
    [file |-> file, pc |-> "pending", gca_name |-> <<>>, events |-> <<>>,
     ev |-> 1, j |-> 1, tmp |-> 0, actual_kmer_count |-> 0]

\* lines 82-86: one file of the walk, submitted when its name qualifies
BuildSubmit ==
    /\ pcBuild = "walk"
    /\ walk <= Len(db)
    /\ futures' = IF BuildIncludes(db[walk].path)
                  THEN Append(futures, NewFuture(walk))
                  ELSE futures
    /\ walk' = walk + 1
    /\ UNCHANGED <<db, num_threads, bh, pcBuild, pkl, call, ret>>
    /\ UNCHANGED runVars

Done(t) == futures[t].pc \in {"finished", "raised"}
Running(t) == futures[t].pc \notin {"pending", "finished", "raised"}

\* concurrent.futures.wait with return_when=FIRST_COMPLETED
AnyDone == \E t \in DOMAIN futures : Done(t)

\* concurrent.futures.wait(futures) and the exit of the with block
AllDone == \A t \in DOMAIN futures : Done(t)

\* lines 89-91: load_database_multithreaded returns
BuildWait ==
    /\ pcBuild = "walk"
    /\ walk > Len(db)
    /\ AllDone
    /\ pcBuild' = "save"
    /\ UNCHANGED <<db, num_threads, bh, walk, futures, pkl, call, ret>>
    /\ UNCHANGED runVars

\* save_bloom_filter
BuildSave ==
    /\ pcBuild = "save"
    /\ pkl' = <<PickleOf(bh)>>
    /\ pcBuild' = "done"
    /\ UNCHANGED <<db, num_threads, bh, walk, futures, call, ret>>
    /\ UNCHANGED runVars

\* ------------------------------------------------------------------------
\* The worker tasks: one _process_file_kmers(file_path) per future.  A step
\* of a task is one access to the handler the tasks share; what a task
\* does between two accesses touches only its own locals.
\* ------------------------------------------------------------------------
\* What a task does is fixed by its file and the k of the handler, so a future
\* carries it from the start: gca_name (line 145) and, per call of
\* _add_kmers_to_bloom, its argument sequence and the list kmers (line 176).
TaskEvent(self, event) ==
    [op |-> event.op,
     ref |-> event.ref,
     sequence |-> event.sequence,
     kmers |-> IF event.op = "add" THEN extract_kmers(self, event.sequence) ELSE <<>>]

TaskEvents(self, file) ==
    Bind(FileEvents(file),
         LAMBDA events : [e \in DOMAIN events |-> Bind(events[e], LAMBDA ev : TaskEvent(self, ev))])

EventOf(t) == futures[t].events[futures[t].ev]
KmersOf(t) == EventOf(t).kmers

\* the task at its event number e: the header assignment, the first k-mer
\* of a call of _add_kmers_to_bloom, its count when it has no k-mer, or the
\* return of the task
AtEvent(fut, e) ==
    IF e > Len(fut.events)
    THEN [fut EXCEPT !.pc = "finished", !.ev = e]
    ELSE IF fut.events[e].op = "gca"
    THEN [fut EXCEPT !.pc = "gca", !.ev = e]
    ELSE IF fut.events[e].kmers = <<>>
    THEN [fut EXCEPT !.pc = "count_read", !.ev = e, !.j = 1]
    ELSE [fut EXCEPT !.pc = "bloom_add", !.ev = e, !.j = 1]

\* a worker of the pool takes the oldest pending task and opens its file
TaskStart(t) ==
    /\ futures[t].pc = "pending"
    /\ \A u \in 1..(t - 1) : futures[u].pc # "pending"
    /\ Cardinality({u \in DOMAIN futures : Running(u)}) < num_threads
    /\ LET file == db[futures[t].file]
           gca_name == _extract_gca_from_filename(file.path)
       IN  futures' = [futures EXCEPT ![t] =
                          IF file.readable
                          THEN AtEvent([@ EXCEPT !.gca_name = gca_name,
                                                 !.events = TaskEvents(bh, file)], 1)
                          ELSE [@ EXCEPT !.pc = "raised", !.gca_name = gca_name]]
    /\ UNCHANGED <<db, num_threads, bh, pcBuild, walk, pkl, call, ret>>
    /\ UNCHANGED runVars

\* line 159: self.reference_gca_map[current_reference] = gca_name
TaskGca(t) ==
    /\ futures[t].pc = "gca"
    /\ bh' = [bh EXCEPT !.reference_gca_map = Store(@, EventOf(t).ref, futures[t].gca_name)]
    /\ futures' = [futures EXCEPT ![t] = AtEvent(@, @.ev + 1)]
    /\ UNCHANGED <<db, num_threads, pcBuild, walk, pkl, call, ret>>
    /\ UNCHANGED runVars

\* line 181: self.bloom.add(kmer)
TaskBloomAdd(t) ==
    /\ futures[t].pc = "bloom_add"
    /\ IF BloomAtCapacity(bh.bloom[1])
       THEN /\ futures' = [futures EXCEPT ![t].pc = "raised"]
            /\ bh' = bh
       ELSE /\ bh' = [bh EXCEPT !.bloom = <<BloomAdd(@[1], KmersOf(t)[futures[t].j])>>]
            /\ futures' = [futures EXCEPT ![t].pc = "map_add"]
    /\ UNCHANGED <<db, num_threads, pcBuild, walk, pkl, call, ret>>
    /\ UNCHANGED runVars

\* line 182: self.kmer_to_reference[kmer].add(reference_name)
TaskMapAdd(t) ==
    /\ futures[t].pc = "map_add"
    /\ LET kmer == KmersOf(t)[futures[t].j] IN
        bh' = [bh EXCEPT !.kmer_to_reference =
                  Store(@, kmer, Get(@, kmer, {}) \cup {EventOf(t).ref})]
    /\ futures' = [futures EXCEPT ![t] =
                      IF @.j < Len(KmersOf(t))
                      THEN [@ EXCEPT !.pc = "bloom_add", !.j = @ + 1]
                      ELSE [@ EXCEPT !.pc = "count_read"]]
    /\ UNCHANGED <<db, num_threads, pcBuild, walk, pkl, call, ret>>
    /\ UNCHANGED runVars

\* line 184, the read of self.reference_kmer_count[reference_name] += len(kmers)
TaskCountRead(t) ==
    /\ futures[t].pc = "count_read"
    /\ bh' = [bh EXCEPT !.reference_kmer_count = Touch(@, EventOf(t).ref, 0)]
    /\ futures' = [futures EXCEPT ![t] =
                      [@ EXCEPT !.pc = "count_write",
                                !.tmp = Get(bh.reference_kmer_count, EventOf(t).ref, 0)]]
    /\ UNCHANGED <<db, num_threads, pcBuild, walk, pkl, call, ret>>
    /\ UNCHANGED runVars

\* line 184, the store of the sum; then the return of _add_kmers_to_bloom
TaskCountWrite(t) ==
    /\ futures[t].pc = "count_write"
    /\ bh' = [bh EXCEPT !.reference_kmer_count =
                 Store(@, EventOf(t).ref, futures[t].tmp + Len(KmersOf(t)))]
    /\ futures' = [futures EXCEPT ![t] =
                      AtEvent([@ EXCEPT !.tmp = 0,
                                        !.actual_kmer_count = @ + Len(KmersOf(t))],
                              @.ev + 1)]
    /\ UNCHANGED <<db, num_threads, pcBuild, walk, pkl, call, ret>>
    /\ UNCHANGED runVars

\* ------------------------------------------------------------------------
\* run_ffVtax: load_bloom_filter, then match_sequences on a query file
\* ------------------------------------------------------------------------
\* load_bloom_filter
RunLoad ==
    /\ pcRun = "start"
    /\ IF pkl # <<>>
       THEN /\ mh' = Restore(mh, pkl[1])
            /\ pcRun' = "loaded"
       ELSE /\ mh' = mh
            /\ pcRun' = "notfound"
    /\ UNCHANGED <<queries, out, last, pkl, call, ret>>
    /\ UNCHANGED buildVars

\* match_sequences opens the output and the query file
RunOpen ==
    /\ pcRun = "loaded"
    /\ \E query_file \in QueryFiles : queries' = _read_fasta_file(query_file)
    /\ pcRun' = "matching"
    /\ UNCHANGED <<mh, out, last, pkl, call, ret>>
    /\ UNCHANGED buildVars

\* _match_sequence on the next record of the query file
RunMatch ==
    /\ pcRun = "matching"
    /\ queries # <<>>
    /\ LET record == Head(queries)
           input_kmers == Elems(_extract_kmers(mh, record.data))
       IN  \E fp \in SUBSET (input_kmers \ mh.bloom[1].added) :
            LET hits == ProbeHits(mh, input_kmers, fp) IN
            /\ last' = [input_kmers |-> input_kmers,
                        fp |-> fp,
                        reference_kmer_matches |-> ReferenceKmerMatches(mh, hits),
                        matched |-> TRUE]
            /\ mh' = [mh EXCEPT !.kmer_to_reference = AfterLookups(@, hits)]
            /\ out' = Append(out, MatchRows(mh, record, fp))
    /\ queries' = Tail(queries)
    /\ UNCHANGED <<pcRun, pkl, call, ret>>
    /\ UNCHANGED buildVars

\* match_sequences returns at the end of the query file
RunFinish ==
    /\ pcRun = "matching"
    /\ queries = <<>>
    /\ pcRun' = "done"
    /\ UNCHANGED <<mh, queries, out, last, pkl, call, ret>>
    /\ UNCHANGED buildVars

\* ------------------------------------------------------------------------
\* Specifications
\* ------------------------------------------------------------------------
BuildNext ==
    \/ BuildEstimate
    \/ BuildSubmit
    \/ BuildWait
    \/ BuildSave
    \/ \E t \in DOMAIN futures : TaskStart(t)
    \/ \E t \in DOMAIN futures : TaskGca(t)
    \/ \E t \in DOMAIN futures : TaskBloomAdd(t)
    \/ \E t \in DOMAIN futures : TaskMapAdd(t)
    \/ \E t \in DOMAIN futures : TaskCountRead(t)
    \/ \E t \in DOMAIN futures : TaskCountWrite(t)

Next ==
    \/ BuildEstimate
    \/ BuildSubmit
    \/ BuildWait
    \/ BuildSave
    \/ \E t \in DOMAIN futures : TaskStart(t)
    \/ \E t \in DOMAIN futures : TaskGca(t)
    \/ \E t \in DOMAIN futures : TaskBloomAdd(t)
    \/ \E t \in DOMAIN futures : TaskMapAdd(t)
    \/ \E t \in DOMAIN futures : TaskCountRead(t)
    \/ \E t \in DOMAIN futures : TaskCountWrite(t)
    \/ RunLoad
    \/ RunOpen
    \/ RunMatch
    \/ RunFinish

Spec == Init /\ [][Next]_vars

\* the build alone, with a scheduler that lets some thread run while one can
FairSpec == Init /\ [][BuildNext]_vars /\ WF_vars(BuildNext)

\* ------------------------------------------------------------------------
\* The extractors on their own
\* ------------------------------------------------------------------------
\* the strings of at most n letters A and C
Strings(n) == UNION {[1..m -> {"A", "C"}] : m \in 0..n}

ExtInit ==
    /\ Idle
    /\ call \in [sequence : Strings(MaxLen), kmer_size : 0..MaxK]
    /\ ret = [build |-> <<>>, match |-> <<>>, done |-> {}]

\* bloom_handler.extract_kmers(sequence)
ExtBuild ==
    /\ "build" \notin ret.done
    /\ ret' = [ret EXCEPT
                 !.build = extract_kmers(NewHandler(call.kmer_size, DefaultFactor),
                                         call.sequence),
                 !.done = @ \cup {"build"}]
    /\ UNCHANGED <<call, pkl>>
    /\ UNCHANGED buildVars
    /\ UNCHANGED runVars

\* matcher._extract_kmers(sequence) on a handler of the same k
ExtMatch ==
    /\ "match" \notin ret.done
    /\ ret' = [ret EXCEPT
                 !.match = _extract_kmers(NewHandler(call.kmer_size, DefaultFactor),
                                          call.sequence),
                 !.done = @ \cup {"match"}]
    /\ UNCHANGED <<call, pkl>>
    /\ UNCHANGED buildVars
    /\ UNCHANGED runVars

ExtNext ==
    \/ ExtBuild
    \/ ExtMatch

ExtSpec == ExtInit /\ [][ExtNext]_vars

\* ------------------------------------------------------------------------
\* The capacity estimate on its own, on two directories
\* ------------------------------------------------------------------------
RECURSIVE RecordLines(_)
RecordLines(lens) ==
    IF lens = <<>>
    THEN <<>>
    ELSE << <<">", "r", "\n">> >>
         \o (IF Head(lens) > 0 THEN << Cyc(0, Head(lens)) \o <<"\n">> >> ELSE <<>>)
         \o RecordLines(Tail(lens))

\* a readable .fna file whose records have bodies of the lengths lens
EstFile(name, lens) ==
    [path |-> <<name>> \o FnaSuffix, readable |-> TRUE, lines |-> RecordLines(lens)]

BodyLengths == 0..(SmallKmerSize + MaxExtra)

\* one file of at most MaxRecords records, or two files of one record
EstDirectories ==
    {<<EstFile("a", lens)>> : lens \in UNION {[1..n -> BodyLengths] : n \in 1..MaxRecords}}
    \cup {<<EstFile("a", <<l[1]>>), EstFile("b", <<l[2]>>)>> : l \in BodyLengths \X BodyLengths}

EstInit ==
    /\ Idle
    /\ call \in [first : EstDirectories, second : EstDirectories, kmer_size : {SmallKmerSize}]
    /\ ret = [first |-> 0, second |-> 0, done |-> {}]

EstFirst ==
    /\ "first" \notin ret.done
    /\ ret' = [ret EXCEPT
                 !.first = _estimate_total_kmers_in_db(
                               NewHandler(call.kmer_size, DefaultFactor), call.first),
                 !.done = @ \cup {"first"}]
    /\ UNCHANGED <<call, pkl>>
    /\ UNCHANGED buildVars
    /\ UNCHANGED runVars

EstSecond ==
    /\ "second" \notin ret.done
    /\ ret' = [ret EXCEPT
                 !.second = _estimate_total_kmers_in_db(
                                NewHandler(call.kmer_size, DefaultFactor), call.second),
                 !.done = @ \cup {"second"}]
    /\ UNCHANGED <<call, pkl>>
    /\ UNCHANGED buildVars
    /\ UNCHANGED runVars

EstNext ==
    \/ EstFirst
    \/ EstSecond

EstSpec == EstInit /\ [][EstNext]_vars

\* ------------------------------------------------------------------------
\* Properties
\* ------------------------------------------------------------------------
Loaded == pcRun \in {"loaded", "matching", "done"}
Joined == pcBuild \in {"save", "done"}

\* the k-mers a probe may answer for without their having been added
FalsePositives(record) ==
    (Elems(_extract_kmers(mh, record.data)) \cup Elems(_extract_kmers(bh, record.data)))
        \ mh.bloom[1].added

\* C1: after build, save and load into the handler run_ffVtax constructs,
\* every record of every query file gets the rows the handler of the build
\* gives it, whatever the probes of never-added k-mers answer.
RoundTripSameRows ==
    Loaded =>
        \A query_file \in QueryFiles :
            \A record \in Elems(_read_fasta_file(query_file)) :
                \A fp \in SUBSET FalsePositives(record) :
                    MatchRows(mh, record, fp) = MatchRows(bh, record, fp)

\* C2: once loaded, the membership set and the three maps of the catalog
\* stay what the persisted index holds, through every query matched.
IndexReadOnlyAfterLoad ==
    Loaded => PickleOf(mh) = pkl[1]

\* C3: when a task has raised, load_database_multithreaded does not return
\* and nothing is persisted.
TaskFailureAbortsBuild ==
    (\E t \in DOMAIN futures : futures[t].pc = "raised") => (~Joined /\ pkl = <<>>)

\* the calls of _add_kmers_to_bloom of the files of a directory, one file
\* after the other
RECURSIVE AddEvents(_)
AddEvents(directory) ==
    IF directory = <<>>
    THEN <<>>
    ELSE (IF BuildIncludes(Head(directory).path) /\ Head(directory).readable
          THEN SelectSeq(FileEvents(Head(directory)), LAMBDA e : e.op = "add")
          ELSE <<>>)
         \o AddEvents(Tail(directory))

RECURSIVE ExpectedCount(_, _)
ExpectedCount(events, ref) ==
    IF events = <<>>
    THEN 0
    ELSE (IF Head(events).ref = ref THEN Len(extract_kmers(bh, Head(events).sequence)) ELSE 0)
         + ExpectedCount(Tail(events), ref)

ExpectedRefs(events, kmer) ==
    {events[i].ref : i \in {n \in DOMAIN events : kmer \in Elems(extract_kmers(bh, events[n].sequence))}}

ExpectedKmers(events) ==
    UNION {Elems(extract_kmers(bh, events[i].sequence)) : i \in DOMAIN events}

\* C4: once the build has joined with every task returned, each raw count
\* is the sum of the extraction counts of the records of that id and each
\* reverse-index entry is the set of ids whose records hold the k-mer.
ConcurrentBuildSafe ==
    (Joined /\ \A t \in DOMAIN futures : futures[t].pc = "finished") =>
        LET events == AddEvents(db) IN
        /\ DOMAIN bh.reference_kmer_count = {events[i].ref : i \in DOMAIN events}
        /\ \A ref \in DOMAIN bh.reference_kmer_count :
              bh.reference_kmer_count[ref] = ExpectedCount(events, ref)
        /\ DOMAIN bh.kmer_to_reference = ExpectedKmers(events)
        /\ \A kmer \in DOMAIN bh.kmer_to_reference :
              bh.kmer_to_reference[kmer] = ExpectedRefs(events, kmer)

KeysWereAdded(self) ==
    \A kmer \in DOMAIN self.kmer_to_reference :
        self.bloom # <<>> /\ kmer \in self.bloom[1].added

\* C5: every key of the reverse index, of the handler of the build and of
\* the handler of the matching session, was given to bloom.add.
CatalogKeysWereInserted ==
    KeysWereAdded(bh) /\ KeysWereAdded(mh)

\* the reference ids the persisted catalog stores a k-mer under
StoredUnder(kmer) == Get(pkl[1].kmer_to_reference, kmer, {})

\* C6: in every _match_sequence, whatever the probes answered, the matched
\* set of a reference holds only k-mers the catalog stores under it, a row
\* is written only for a reference with such a k-mer and counts only those,
\* and a query with no stored k-mer gets no row.
FalsePositivesAreNeutral ==
    last.matched =>
        LET rows == out[Len(out)]
            stored(ref) == {kmer \in last.input_kmers : ref \in StoredUnder(kmer)}
        IN  /\ \A ref \in DOMAIN last.reference_kmer_matches :
                  /\ last.reference_kmer_matches[ref] = stored(ref)
                  /\ stored(ref) # {}
            /\ \A row \in rows :
                  /\ stored(row.ref) # {}
                  /\ row.matched = Cardinality(stored(row.ref))
            /\ {row.ref : row \in rows} = DOMAIN last.reference_kmer_matches
            /\ ((\A kmer \in last.input_kmers : StoredUnder(kmer) = {}) => rows = {})

\* a probe answered true for a k-mer never stored, in a query with a row
FalsePositiveInMatchedQuery ==
    last.matched /\ last.fp # {} /\ out[Len(out)] # {}

\* no submitted task is pending or running
NoTaskLeft == \A t \in DOMAIN futures : futures[t].pc \in {"finished", "raised"}

\* the build is over
BuildEnded == pcBuild \in {"done", "config_error"} /\ NoTaskLeft

\* C7: load_database_multithreaded returns only when the walk is over and
\* every submitted task is done, so no task runs while the catalog is
\* persisted; and the build comes to its end with every submitted task done.
BuildWaitsForAllTasks ==
    /\ [](Joined => (walk > Len(db) /\ NoTaskLeft))
    /\ <>BuildEnded

\* the index is saved after tasks ran on several files
SavedAfterTasks ==
    pcBuild = "done" /\ Len(futures) >= 2 /\ pkl # <<>>

\* the bodies of the records estimate_kmers counts in a file
RECURSIVE BodyLens(_, _)
BodyLens(lines, n) ==
    IF lines = <<>>
    THEN <<n>>
    ELSE IF StartsWith(Strip(Head(lines)), <<">">>)
    THEN <<n>> \o BodyLens(Tail(lines), 0)
    ELSE BodyLens(Tail(lines), n + Len(Strip(Head(lines))))

RECURSIVE Sum(_)
Sum(list) == IF list = <<>> THEN 0 ELSE Head(list) + Sum(Tail(list))

RECURSIVE TotalLength(_)
TotalLength(directory) ==
    IF directory = <<>>
    THEN 0
    ELSE (IF EstimateIncludes(Head(directory).path)
          THEN Sum(BodyLens(Head(directory).lines, 0))
          ELSE 0)
         + TotalLength(Tail(directory))

EstimatedBoth == ret.done = {"first", "second"}

\* C8 as stated: a directory with at least the total body length of
\* another has at least its estimate, however the length is split.
EstimateMonotoneInTotalLength ==
    (EstimatedBoth /\ TotalLength(call.second) >= TotalLength(call.first))
        => ret.second >= ret.first

\* the same files with the same number of records, each body of the second
\* at least as long as the body of the first in its place
BodiesGrow(first, second) ==
    /\ Len(first) = Len(second)
    /\ \A f \in DOMAIN first :
          /\ first[f].path = second[f].path
          /\ first[f].readable = second[f].readable
          /\ LET a == BodyLens(first[f].lines, 0)
                 b == BodyLens(second[f].lines, 0)
             IN  /\ Len(a) = Len(b)
                 /\ \A i \in DOMAIN a : a[i] <= b[i]

\* C8 amended: the estimate does not decrease when the record bodies grow
\* in place.
EstimateMonotoneInRecordBodies ==
    (EstimatedBoth /\ BodiesGrow(call.first, call.second))
        => ret.second >= ret.first

\* two records grown in place, with a larger estimate
EstimateGrewWithBodies ==
    /\ EstimatedBoth
    /\ BodiesGrow(call.first, call.second)
    /\ Len(BodyLens(call.first[1].lines, 0)) >= 3
    /\ ret.second > ret.first
    /\ ret.first > 0

\* C9: with a zero estimate the build ends in the configuration error with
\* no membership set, no task, empty maps and nothing persisted.
ZeroEstimateStopsBuild ==
    (pcBuild # "start" /\ _estimate_total_kmers_in_db(bh, db) = 0) =>
        /\ pcBuild = "config_error"
        /\ bh.bloom = <<>>
        /\ futures = <<>>
        /\ walk = 1
        /\ DOMAIN bh.kmer_to_reference = {}
        /\ DOMAIN bh.reference_kmer_count = {}
        /\ DOMAIN bh.reference_gca_map = {}
        /\ pkl = <<>>

\* the configuration error on a directory that holds files the build reads
ConfigErrorOnFiles ==
    /\ pcBuild = "config_error"
    /\ \E f \in DOMAIN db : BuildIncludes(db[f].path) /\ db[f].readable

\* C10: for k <= L the build-side extractor returns the L-k+1 windows of
\* length k in order of offset, for L < k it returns nothing, and the
\* match-side extractor returns the same.
ExtractIsSlidingWindow ==
    ret.done = {"build", "match"} =>
        LET L == Len(call.sequence)
            k == call.kmer_size
        IN  /\ k <= L =>
                /\ Len(ret.build) = L - k + 1
                /\ \A i \in 1..(L - k + 1) :
                      ret.build[i] = SubSeq(call.sequence, i, i + k - 1)
            /\ L < k => ret.build = <<>>
            /\ ret.match = ret.build

\* both extractors applied to a sequence with several windows
ExtractedSeveral ==
    /\ ret.done = {"build", "match"}
    /\ call.kmer_size >= 2
    /\ Len(ret.build) >= 2

\* the records of a file as its headers delimit them: the id of each header
\* and the body lines from it to the next header or the end of the file
RECURSIVE HeaderRecords(_, _)
HeaderRecords(lines, records) ==
    IF lines = <<>>
    THEN records
    ELSE LET line == Strip(Head(lines)) IN
         IF StartsWith(line, <<">">>)
         THEN HeaderRecords(Tail(lines),
                            Append(records, [ref |-> _extract_reference_name(line),
                                             body |-> <<>>]))
         ELSE IF records = <<>>
         THEN HeaderRecords(Tail(lines), records)
         ELSE HeaderRecords(Tail(lines),
                            [records EXCEPT ![Len(records)].body = @ \o line])

\* task t has made the call _add_kmers_to_bloom of its event e
Called(t, e) ==
    /\ futures[t].events[e].op = "add"
    /\ \/ e < futures[t].ev
       \/ /\ e = futures[t].ev
          /\ futures[t].pc \in {"bloom_add", "map_add", "count_read", "count_write"}

\* C11: every sequence a task passes to _add_kmers_to_bloom for a reference
\* id is the concatenation of the body lines between a header of that id and
\* the next header or the end of the file, and nothing else.
RecordBodiesIsolated ==
    \A t \in DOMAIN futures :
        \A e \in DOMAIN futures[t].events :
            Called(t, e) =>
                LET records == HeaderRecords(db[futures[t].file].lines, <<>>) IN
                \E i \in DOMAIN records :
                    /\ records[i].ref = futures[t].events[e].ref
                    /\ records[i].body = futures[t].events[e].sequence

====
